---- MODULE Spec2Model ----
(***************************************************************************)
(* The recommendation engine of src/recommendation_engine.py as a state    *)
(* machine: the catalog (videos), the watch history, the content index     *)
(* (video_ids, tfidf_matrix), and one action per public method.            *)
(*                                                                         *)
(* Python dicts keep insertion order, so a dict is a sequence of entries.  *)
(* A video record is a TLA+ record that holds exactly the keys the Python  *)
(* dict holds: a missing key is a missing field.  Scores are exact         *)
(* rationals, written as integers in units of 1/ONE.                       *)
(***************************************************************************)
EXTENDS Integers, Sequences, FiniteSets, TLC

VARIABLES videos, watch_history, video_ids, tfidf_matrix, call, ret

vars == <<videos, watch_history, video_ids, tfidf_matrix, call, ret>>
engine == <<videos, watch_history, video_ids, tfidf_matrix>>

---------------------------------------------------------------------------
(* Bounds of the model *)

\* the largest limit a query is given
MaxLimit == 2
\* the largest number of items the watch history holds in all
MaxEntries == 3

(* Python values *)

\* None where a string is expected (dict.get without default, category_id=None)
None == "<None>"
\* user_id=None
NoUser == -1
\* timestamp=None
NoTime == 0
\* 1.0 in score units
ONE == 1200

Falsy(x) == x = None \/ x = ""
FalsyInt(n) == n = NoUser \/ n = 0

(* Inputs *)

\* user 0 is a falsy id, user 1 the id the presentation layer uses
UserIds == {0, 1}
Timestamps == {1, 2}
\* datetime.now(): the latest time of the model
Now == CHOOSE t \in Timestamps : \A u \in Timestamps : u <= t
\* the (timestamp, watched_percentage) pairs add_to_history is given
WatchArgs == {[timestamp |-> 1, watched_percentage |-> 50],
              [timestamp |-> 2, watched_percentage |-> 90],
              [timestamp |-> NoTime, watched_percentage |-> 90]}
\* the category filters a query is given
CategoryFilters == {None, "2"}
Limits == 0 .. MaxLimit

\* The records of the model.  VA1 and VB1 share channel, category and the
\* title word; VC1 shares nothing with them and has no title and no
\* viewCount; VA2 is another record for id "A" that has only a view count.
VA1 == [id |-> "A", title |-> "cats", channelTitle |-> "X", categoryId |-> "1",
        tags |-> <<"p">>, viewCount |-> 5]
VA2 == [id |-> "A", viewCount |-> 1000000000]
VB1 == [id |-> "B", title |-> "cats", channelTitle |-> "X", categoryId |-> "1",
        tags |-> <<"p", "q">>, viewCount |-> 7]
VC1 == [id |-> "C", channelTitle |-> "Y", categoryId |-> "2", tags |-> <<"q">>]
\* a record without the key "id"
VBad == [title |-> "cats", viewCount |-> 3]

\* an id is unknown while the catalog does not hold it
VideoIds == {"A", "B", "C"}
\* the videos users are recorded to watch
WatchedIds == {"B", "C"}

\* the batches add_videos is given
Batches == {<<>>, <<VA1>>, <<VA2>>, <<VC1>>, <<VA1, VB1>>, <<VA1, VA2>>, <<VA2, VA1>>}
\* batches that hold a record without an id
MalformedBatches == {<<VB1, VBad>>, <<VBad, VB1>>, <<VC1, VBad, VA1>>}

---------------------------------------------------------------------------
(* Sequences *)

Range(s) == {s[i] : i \in DOMAIN s}
TakeOneLess(s, n) == SubSeq(s, 1, IF n - 1 < Len(s) THEN n - 1 ELSE Len(s))
Take(s, n) == SubSeq(s, 1, IF n < Len(s) THEN n ELSE Len(s))
Reverse(s) == [i \in 1 .. Len(s) |-> s[Len(s) + 1 - i]]
\* dict.get(key, default)
Get(d, key, default) == IF key \in DOMAIN d THEN d[key] ELSE default

(* The catalog: self.videos, a dict id -> record in insertion order *)

Keys(vs) == {vs[i].id : i \in DOMAIN vs}
KeyList(vs) == [i \in DOMAIN vs |-> vs[i].id]
Lookup(vs, id) == (CHOOSE i \in DOMAIN vs : vs[i].id = id)
Video(vs, id) == vs[Lookup(vs, id)]

\* self.videos[video["id"]] = video
DictStoreMerge(vs, video) ==
    IF video.id \in Keys(vs)
    THEN [vs EXCEPT ![Lookup(vs, video.id)] = [k \in DOMAIN vs[Lookup(vs, video.id)] \cup DOMAIN video |->
                IF k \in DOMAIN video THEN video[k] ELSE vs[Lookup(vs, video.id)][k]]]
    ELSE Append(vs, video)
DictStore(vs, video) ==
    IF video.id \in Keys(vs)
    THEN [vs EXCEPT ![Lookup(vs, video.id)] = video]
    ELSE Append(vs, video)

---------------------------------------------------------------------------
(* Return values *)

Ok(v) == [status |-> "ok", value |-> v]
Raised(e) == [status |-> "raised", error |-> e]
NoRet == [status |-> "none"]
Idle == [op |-> "idle"]

(* Sorting *)

\* list.sort(key=..., reverse=True) and sorted(..., reverse=True): stable, so
\* equal keys keep their original order.  The result lists the indices.
OrderAsIs(keys) == [p \in 1 .. Len(keys) |-> p]
OrderDesc(keys) ==
    LET n == Len(keys)
        Pos(i) == 1 + Cardinality({j \in 1 .. n :
                     keys[j] > keys[i] \/ (keys[j] = keys[i] /\ j < i)})
    IN  [p \in 1 .. n |-> CHOOSE i \in 1 .. n : Pos(i) = p]

Perms(n) == {p \in [1 .. n -> 1 .. n] : \A i, j \in 1 .. n : i # j => p[i] # p[j]}

\* numpy argsort (default kind, not stable): any permutation that lists the
\* scores in non-decreasing order.
ArgSorts(scores) ==
    {p \in Perms(Len(scores)) :
        \A i, j \in 1 .. Len(scores) : i < j => scores[p[i]] <= scores[p[j]]}

---------------------------------------------------------------------------
(* The content index: _update_content_vectors *)

\* The words the vectorizer keeps (token_pattern \w\w+, stop words dropped):
\* of the strings of the model only "cats"; "X", "Y", "1", "2", "p", "q" are
\* one-character words and yield no term.
Words == {"cats"}
Tokenize(elem) == IF elem \in Words THEN {elem} ELSE {}

\* text_elements, without the falsy ones
Document(video) ==
    SelectSeq(<<Get(video, "title", ""), Get(video, "description", ""),
                Get(video, "channelTitle", ""), Get(video, "categoryId", "")>>
              \o Get(video, "tags", <<>>),
              LAMBDA elem : elem # "")

Terms(doc) == UNION {Tokenize(doc[i]) : i \in DOMAIN doc}

NoMatrix == [none |-> TRUE]

\* vectorizer.fit_transform(content_texts): one row per document; raises
\* ValueError (empty vocabulary) when no document holds a term.  A row is the
\* set of terms of its document: the documents of the model hold at most one
\* term, so a row is a unit vector or the zero row.
FitTransform(docs) ==
    LET rows == [i \in DOMAIN docs |-> Terms(docs[i])]
    IN  IF UNION Range(rows) = {} THEN NoMatrix
        ELSE [none |-> FALSE, rows |-> rows]

\* cosine_similarity(matrix[i], matrix).flatten() for such rows
CosineSimilarity(rows, i) ==
    [j \in DOMAIN rows |-> IF rows[i] # {} /\ rows[i] = rows[j] THEN ONE ELSE 0]

UpdateContentVectors(vs, ids, matrix) ==
    IF vs = <<>> THEN [video_ids |-> ids, tfidf_matrix |-> matrix]
    ELSE [video_ids |-> KeyList(vs),
          tfidf_matrix |-> FitTransform([i \in DOMAIN vs |-> Document(vs[i])])]

---------------------------------------------------------------------------
(* add_videos *)

\* the loop of lines 37-38: video["id"] raises KeyError on a record without id
RECURSIVE StoreAll(_, _, _)
StoreAll(vs, batch, i) ==
    IF i > Len(batch) THEN [videos |-> vs, raised |-> FALSE]
    ELSE IF "id" \notin DOMAIN batch[i] THEN [videos |-> vs, raised |-> TRUE]
    ELSE StoreAll(DictStore(vs, batch[i]), batch, i + 1)

AddVideosTo(batch) ==
    /\ call' = [op |-> "add_videos", videos_list |-> batch]
    /\ UNCHANGED watch_history
    /\ IF batch = <<>>
       THEN /\ UNCHANGED <<videos, video_ids, tfidf_matrix>>
            /\ ret' = Ok(<<>>)
       ELSE LET stored == StoreAll(videos, batch, 1)
                index == UpdateContentVectors(stored.videos, video_ids, tfidf_matrix)
            IN  /\ videos' = stored.videos
                /\ IF stored.raised
                   THEN /\ UNCHANGED <<video_ids, tfidf_matrix>>
                        /\ ret' = Raised("KeyError")
                   ELSE /\ video_ids' = index.video_ids
                        /\ tfidf_matrix' = index.tfidf_matrix
                        /\ ret' = Ok(<<>>)

AddVideos ==
    /\ call = Idle
    /\ \E batch \in Batches : AddVideosTo(batch)

AddVideosMalformed ==
    /\ call = Idle
    /\ \E batch \in MalformedBatches : AddVideosTo(batch)

---------------------------------------------------------------------------
(* The watch history: self.watch_history, a dict user_id -> list of items *)

HKeys(h) == {h[i].user_id : i \in DOMAIN h}
HIndex(h, u) == CHOOSE i \in DOMAIN h : h[i].user_id = u
HItems(h, u) == IF u \in HKeys(h) THEN h[HIndex(h, u)].items ELSE <<>>
HStore(h, u, items) ==
    IF u \in HKeys(h)
    THEN [h EXCEPT ![HIndex(h, u)].items = items]
    ELSE Append(h, [user_id |-> u, items |-> items])
Watched(items) == {items[i].video_id : i \in DOMAIN items}

RECURSIVE SumSeq(_)
SumSeq(s) == IF s = <<>> THEN 0 ELSE Head(s) + SumSeq(Tail(s))
TotalEntries(h) == SumSeq([i \in DOMAIN h |-> Len(h[i].items)])

\* add_to_history: the four steps, on the dict h
HistoryAfterAddUnchecked(vs, h, user_id, video_id, timestamp, watched_percentage) ==
    LET h1 == IF user_id \notin HKeys(h) THEN HStore(h, user_id, <<>>) ELSE h
        history_item == [video_id |-> video_id, timestamp |-> timestamp,
                         watched_percentage |-> watched_percentage]
        kept == SelectSeq(HItems(h1, user_id), LAMBDA item : item.video_id # video_id)
    IN  HStore(h1, user_id, Append(kept, history_item))
HistoryAfterAddNoDedup(vs, h, user_id, video_id, timestamp, watched_percentage) ==
    LET h1 == IF user_id \notin HKeys(h) THEN HStore(h, user_id, <<>>) ELSE h
        history_item == [video_id |-> video_id, timestamp |-> timestamp,
                         watched_percentage |-> watched_percentage]
    IN  IF video_id \notin Keys(vs) THEN h1
        ELSE HStore(h1, user_id, Append(HItems(h1, user_id), history_item))
HistoryAfterAdd(vs, h, user_id, video_id, timestamp, watched_percentage) ==
    LET h1 == IF user_id \notin HKeys(h) THEN HStore(h, user_id, <<>>) ELSE h
        history_item == [video_id |-> video_id, timestamp |-> timestamp,
                         watched_percentage |-> watched_percentage]
        kept == SelectSeq(HItems(h1, user_id), LAMBDA item : item.video_id # video_id)
    IN  IF video_id \notin Keys(vs) THEN h1
        ELSE HStore(h1, user_id, Append(kept, history_item))

\* timestamp=None (or any falsy value) is replaced by datetime.now(); the call
\* record keeps the items the list comprehension of lines 65-68 drops
AddToHistory ==
    /\ call = Idle
    /\ \E user_id \in UserIds, video_id \in WatchedIds, args \in WatchArgs :
          LET ts == IF args.timestamp = NoTime THEN Now ELSE args.timestamp
              watched_percentage == args.watched_percentage
              h2 == HistoryAfterAdd(videos, watch_history, user_id, video_id,
                                    ts, watched_percentage)
          IN  /\ TotalEntries(h2) <= MaxEntries
              /\ watch_history' = h2
              /\ call' = [op |-> "add_to_history", user_id |-> user_id,
                          video_id |-> video_id, timestamp |-> args.timestamp,
                          watched_percentage |-> watched_percentage,
                          replaced |-> {item \in Range(HItems(watch_history, user_id)) :
                                          item.video_id = video_id}]
              /\ ret' = Ok(<<>>)
    /\ UNCHANGED <<videos, video_ids, tfidf_matrix>>

SetField(rec, key, val) ==
    [k \in DOMAIN rec \cup {key} |-> IF k = key THEN val ELSE rec[k]]

\* get_user_history
GetUserHistory(vs, h, user_id, limit) ==
    IF user_id \notin HKeys(h) THEN <<>>
    ELSE LET items == HItems(h, user_id)
             order == OrderDesc([i \in DOMAIN items |-> items[i].timestamp])
             sorted_history == [p \in DOMAIN order |-> items[order[p]]]
             known == SelectSeq(Take(sorted_history, limit),
                                LAMBDA item : item.video_id \in Keys(vs))
         IN  [p \in DOMAIN known |->
                 SetField(Video(vs, known[p].video_id), "watched_percentage",
                          known[p].watched_percentage)]

\* clear_history: "if user_id:" sends None and every falsy id to the else
\* branch; the call record keeps the users whose items the call dropped
HistoryAfterClear(h, user_id) ==
    IF ~FalsyInt(user_id)
    THEN IF user_id \in HKeys(h) THEN HStore(h, user_id, <<>>) ELSE h
    ELSE <<>>

ClearHistory ==
    /\ call = Idle
    /\ \E user_id \in UserIds \cup {NoUser} :
          /\ watch_history' = HistoryAfterClear(watch_history, user_id)
          /\ call' = [op |-> "clear_history", user_id |-> user_id,
                      cleared |-> {u \in HKeys(watch_history) :
                                     /\ HItems(watch_history, u) # <<>>
                                     /\ HItems(HistoryAfterClear(watch_history, user_id), u) = <<>>}]
          /\ ret' = Ok(<<>>)
    /\ UNCHANGED <<videos, video_ids, tfidf_matrix>>

---------------------------------------------------------------------------
(* calculate_similarity: the manual scorer, 0.5 / 0.3 / 0.2 x Jaccard *)

Min(a, b) == IF a < b THEN a ELSE b

CalculateSimilarityByFirstTags(video_a, video_b) ==
    LET channel == IF Get(video_a, "channelTitle", None) = Get(video_b, "channelTitle", None)
                   THEN (5 * ONE) \div 10 ELSE 0
        category == IF Get(video_a, "categoryId", None) = Get(video_b, "categoryId", None)
                    THEN (3 * ONE) \div 10 ELSE 0
        tags_a == Range(Get(video_a, "tags", <<>>))
        tags_b == Range(Get(video_b, "tags", <<>>))
        jaccard == IF tags_a # {} /\ tags_b # {}
                   THEN (2 * ONE * Cardinality(tags_a \cap tags_b))
                            \div (10 * Cardinality(tags_a))
                   ELSE 0
    IN  Min(channel + category + jaccard, ONE)
CalculateSimilarity(video_a, video_b) ==
    LET channel == IF Get(video_a, "channelTitle", None) = Get(video_b, "channelTitle", None)
                   THEN (5 * ONE) \div 10 ELSE 0
        category == IF Get(video_a, "categoryId", None) = Get(video_b, "categoryId", None)
                    THEN (3 * ONE) \div 10 ELSE 0
        tags_a == Range(Get(video_a, "tags", <<>>))
        tags_b == Range(Get(video_b, "tags", <<>>))
        jaccard == IF tags_a # {} /\ tags_b # {}
                   THEN (2 * ONE * Cardinality(tags_a \cap tags_b))
                            \div (10 * Cardinality(tags_a \cup tags_b))
                   ELSE 0
    IN  Min(channel + category + jaccard, ONE)

---------------------------------------------------------------------------
(* get_content_based_recommendations *)

IndexOf(seq, x) == CHOOSE i \in DOMAIN seq : seq[i] = x /\ \A j \in 1 .. i - 1 : seq[j] # x

\* Method 2, lines 243-266
ManualRecommendationsUnsorted(vs, source_video_id, limit, category_id) ==
    LET source_video == Video(vs, source_video_id)
        candidates == SelectSeq(vs, LAMBDA video :
                        /\ video.id # source_video_id
                        /\ ~(~Falsy(category_id) /\ Get(video, "categoryId", None) # category_id)
                        /\ CalculateSimilarity(source_video, video) > 0)
        recommendations == [i \in DOMAIN candidates |->
                              SetField(candidates[i], "score",
                                       CalculateSimilarity(source_video, candidates[i]))]
    IN  Take(recommendations, limit)
ManualRecommendations(vs, source_video_id, limit, category_id) ==
    LET source_video == Video(vs, source_video_id)
        candidates == SelectSeq(vs, LAMBDA video :
                        /\ video.id # source_video_id
                        /\ ~(~Falsy(category_id) /\ Get(video, "categoryId", None) # category_id)
                        /\ CalculateSimilarity(source_video, video) > 0)
        recommendations == [i \in DOMAIN candidates |->
                              SetField(candidates[i], "score",
                                       CalculateSimilarity(source_video, candidates[i]))]
        order == OrderDesc([i \in DOMAIN recommendations |-> recommendations[i].score])
    IN  Take([p \in DOMAIN order |-> recommendations[order[p]]], limit)

\* Method 1, lines 203-238, for one outcome `sorted` of argsort
IndexRecommendationsWithSource(vs, ids, rows, source_video_id, limit, category_id, sorted) ==
    LET similarity_scores == CosineSimilarity(rows, IndexOf(ids, source_video_id))
        similar_indices == Take(Reverse(sorted), limit)
        Item(idx) == SetField(Video(vs, ids[idx]), "score", similarity_scores[idx])
    IN  IF ~Falsy(category_id)
        THEN LET filtered == SelectSeq(similar_indices, LAMBDA idx :
                                Get(Video(vs, ids[idx]), "categoryId", None) = category_id)
             IN  Take([i \in DOMAIN filtered |-> Item(filtered[i])], limit)
        ELSE LET top == Take(similar_indices, limit)
             IN  [i \in DOMAIN top |-> Item(top[i])]
IndexRecommendations(vs, ids, rows, source_video_id, limit, category_id, sorted) ==
    LET similarity_scores == CosineSimilarity(rows, IndexOf(ids, source_video_id))
        top_indices == Take(Reverse(sorted), limit)
        similar_indices == SelectSeq(top_indices, LAMBDA idx : ids[idx] # source_video_id)
        Item(idx) == SetField(Video(vs, ids[idx]), "score", similarity_scores[idx])
    IN  IF ~Falsy(category_id)
        THEN LET filtered == SelectSeq(similar_indices, LAMBDA idx :
                                Get(Video(vs, ids[idx]), "categoryId", None) = category_id)
             IN  Take([i \in DOMAIN filtered |-> Item(filtered[i])], limit)
        ELSE LET top == Take(similar_indices, limit)
             IN  [i \in DOMAIN top |-> Item(top[i])]

\* The path a call takes: "empty" (unknown source), "raise" (line 194 reads
\* .shape of None), "index" (Method 1) or "manual" (Method 1 raised inside the
\* try: the source is not in video_ids).
ContentPathIndexFirst(vs, ids, matrix, source_video_id) ==
    IF matrix = NoMatrix THEN "raise"
    ELSE IF source_video_id \notin Keys(vs) THEN "empty"
    ELSE IF source_video_id \notin Range(ids) THEN "manual"
    ELSE "index"
ContentPath(vs, ids, matrix, source_video_id) ==
    IF source_video_id \notin Keys(vs) THEN "empty"
    ELSE IF matrix = NoMatrix THEN "raise"
    ELSE IF source_video_id \notin Range(ids) THEN "manual"
    ELSE "index"

\* The set of possible return values of the call (one per outcome of argsort)
ContentRecommendations(vs, ids, matrix, source_video_id, limit, category_id) ==
    LET path == ContentPath(vs, ids, matrix, source_video_id)
    IN  CASE path = "empty" -> {Ok(<<>>)}
          [] path = "raise" -> {Raised("AttributeError")}
          [] path = "manual" ->
                {Ok(ManualRecommendations(vs, source_video_id, limit, category_id))}
          [] path = "index" ->
                {Ok(IndexRecommendations(vs, ids, matrix.rows, source_video_id,
                                         limit, category_id, sorted)) :
                    sorted \in ArgSorts(CosineSimilarity(matrix.rows,
                                            IndexOf(ids, source_video_id)))}

RecommendByContent ==
    /\ call = Idle
    /\ \E source_video_id \in VideoIds, limit \in Limits, category_id \in CategoryFilters :
          /\ ret' \in ContentRecommendations(videos, video_ids, tfidf_matrix,
                                             source_video_id, limit, category_id)
          /\ call' = [op |-> "recommend_by_content", source_video_id |-> source_video_id,
                      limit |-> limit, category_id |-> category_id,
                      path |-> ContentPath(videos, video_ids, tfidf_matrix, source_video_id)]
    /\ UNCHANGED engine

---------------------------------------------------------------------------
(* get_collaborative_recommendations *)

RECURSIVE Flatten(_)
Flatten(ss) == IF ss = <<>> THEN <<>> ELSE Head(ss) \o Flatten(Tail(ss))

\* the first occurrences of the elements of seq, in order (the keys of a dict
\* filled in that order)
Distinct(seq) ==
    LET firsts == SelectSeq([i \in DOMAIN seq |-> i],
                            LAMBDA i : \A j \in 1 .. i - 1 : seq[j] # seq[i])
    IN  [p \in DOMAIN firsts |-> seq[firsts[p]]]

TopNeighbours == 5

CollaborativeRecommendationsAnyCategory(vs, h, user_id, limit, category_id) ==
    IF user_id \notin HKeys(h) \/ HItems(h, user_id) = <<>> THEN <<>>
    ELSE
    LET user_videos == Watched(HItems(h, user_id))
        Similarity(entry) ==
            LET other_videos == Watched(entry.items)
            IN  IF other_videos = {} THEN 0
                ELSE (ONE * Cardinality(user_videos \cap other_videos))
                         \div Cardinality(user_videos \cup other_videos)
        others == SelectSeq(h, LAMBDA entry :
                      entry.user_id # user_id /\ Similarity(entry) > 0)
        order == OrderDesc([i \in DOMAIN others |-> Similarity(others[i])])
        similar_users == Take([p \in DOMAIN order |-> others[order[p]]], TopNeighbours)
        Contributions(entry) ==
            LET eligible == SelectSeq(entry.items, LAMBDA item :
                    /\ item.video_id \notin user_videos
                    /\ item.video_id \in Keys(vs))
            IN  [i \in DOMAIN eligible |->
                    [video_id |-> eligible[i].video_id,
                     score |-> (Similarity(entry) * (100 + eligible[i].watched_percentage))
                                   \div 200]]
        contributions == Flatten([i \in DOMAIN similar_users |-> Contributions(similar_users[i])])
        candidate_ids == Distinct([i \in DOMAIN contributions |-> contributions[i].video_id])
        Score(video_id) ==
            SumSeq([i \in DOMAIN contributions |->
                      IF contributions[i].video_id = video_id
                      THEN contributions[i].score ELSE 0])
        recommendations == [i \in DOMAIN candidate_ids |->
                              SetField(Video(vs, candidate_ids[i]), "score",
                                       Score(candidate_ids[i]))]
        sorted == OrderDesc([i \in DOMAIN recommendations |-> recommendations[i].score])
    IN  Take([p \in DOMAIN sorted |-> recommendations[sorted[p]]], limit)

CollaborativeRecommendationsAllNeighbours(vs, h, user_id, limit, category_id) ==
    IF user_id \notin HKeys(h) \/ HItems(h, user_id) = <<>> THEN <<>>
    ELSE
    LET user_videos == Watched(HItems(h, user_id))
        Similarity(entry) ==
            LET other_videos == Watched(entry.items)
            IN  IF other_videos = {} THEN 0
                ELSE (ONE * Cardinality(user_videos \cap other_videos))
                         \div Cardinality(user_videos \cup other_videos)
        others == SelectSeq(h, LAMBDA entry :
                      entry.user_id # user_id /\ Similarity(entry) > 0)
        order == OrderDesc([i \in DOMAIN others |-> Similarity(others[i])])
        similar_users == [p \in DOMAIN order |-> others[order[p]]]
        Contributions(entry) ==
            LET eligible == SelectSeq(entry.items, LAMBDA item :
                    /\ item.video_id \notin user_videos
                    /\ item.video_id \in Keys(vs)
                    /\ ~(~Falsy(category_id)
                         /\ Get(Video(vs, item.video_id), "categoryId", None) # category_id))
            IN  [i \in DOMAIN eligible |->
                    [video_id |-> eligible[i].video_id,
                     score |-> (Similarity(entry) * (100 + eligible[i].watched_percentage))
                                   \div 200]]
        contributions == Flatten([i \in DOMAIN similar_users |-> Contributions(similar_users[i])])
        candidate_ids == Distinct([i \in DOMAIN contributions |-> contributions[i].video_id])
        Score(video_id) ==
            SumSeq([i \in DOMAIN contributions |->
                      IF contributions[i].video_id = video_id
                      THEN contributions[i].score ELSE 0])
        recommendations == [i \in DOMAIN candidate_ids |->
                              SetField(Video(vs, candidate_ids[i]), "score",
                                       Score(candidate_ids[i]))]
        sorted == OrderDesc([i \in DOMAIN recommendations |-> recommendations[i].score])
    IN  Take([p \in DOMAIN sorted |-> recommendations[sorted[p]]], limit)
CollaborativeRecommendations(vs, h, user_id, limit, category_id) ==
    IF user_id \notin HKeys(h) \/ HItems(h, user_id) = <<>> THEN <<>>
    ELSE
    LET user_videos == Watched(HItems(h, user_id))
        Similarity(entry) ==
            LET other_videos == Watched(entry.items)
            IN  IF other_videos = {} THEN 0
                ELSE (ONE * Cardinality(user_videos \cap other_videos))
                         \div Cardinality(user_videos \cup other_videos)
        others == SelectSeq(h, LAMBDA entry :
                      entry.user_id # user_id /\ Similarity(entry) > 0)
        order == OrderDesc([i \in DOMAIN others |-> Similarity(others[i])])
        similar_users == Take([p \in DOMAIN order |-> others[order[p]]], TopNeighbours)
        Contributions(entry) ==
            LET eligible == SelectSeq(entry.items, LAMBDA item :
                    /\ item.video_id \notin user_videos
                    /\ item.video_id \in Keys(vs)
                    /\ ~(~Falsy(category_id)
                         /\ Get(Video(vs, item.video_id), "categoryId", None) # category_id))
            IN  [i \in DOMAIN eligible |->
                    [video_id |-> eligible[i].video_id,
                     score |-> (Similarity(entry) * (100 + eligible[i].watched_percentage))
                                   \div 200]]
        contributions == Flatten([i \in DOMAIN similar_users |-> Contributions(similar_users[i])])
        candidate_ids == Distinct([i \in DOMAIN contributions |-> contributions[i].video_id])
        Score(video_id) ==
            SumSeq([i \in DOMAIN contributions |->
                      IF contributions[i].video_id = video_id
                      THEN contributions[i].score ELSE 0])
        recommendations == [i \in DOMAIN candidate_ids |->
                              SetField(Video(vs, candidate_ids[i]), "score",
                                       Score(candidate_ids[i]))]
        sorted == OrderDesc([i \in DOMAIN recommendations |-> recommendations[i].score])
    IN  Take([p \in DOMAIN sorted |-> recommendations[sorted[p]]], limit)

RecommendByCollaboration ==
    /\ call = Idle
    /\ \E user_id \in UserIds, limit \in Limits, category_id \in CategoryFilters :
          /\ ret' = Ok(CollaborativeRecommendations(videos, watch_history, user_id,
                                                    limit, category_id))
          /\ call' = [op |-> "recommend_by_collaboration", user_id |-> user_id,
                      limit |-> limit, category_id |-> category_id]
    /\ UNCHANGED engine

---------------------------------------------------------------------------
(* get_trending_videos *)

\* floor(ONE * log1p(view_count) / 20) for the view counts of the model:
\* log1p(5)/20 = 0.0895..., log1p(7)/20 = 0.1039..., log1p(3)/20 = 0.0693...,
\* log1p(10^9)/20 = 1.0361...
Log1pOver20(view_count) ==
    CASE view_count = 3 -> 83
      [] view_count = 5 -> 107
      [] view_count = 7 -> 124
      [] view_count = 1000000000 -> 1243

TrendingVideosUnsorted(vs, category_id, limit) ==
    IF vs = <<>> THEN <<>>
    ELSE
    LET trending_videos == SelectSeq(vs, LAMBDA video :
            ~(~Falsy(category_id) /\ Get(video, "categoryId", None) # category_id))
        Scored(video) ==
            LET view_count == Get(video, "viewCount", 0)
            IN  SetField(video, "score",
                         IF view_count > 0 THEN Log1pOver20(view_count) ELSE 0)
    IN  Take([p \in DOMAIN trending_videos |-> Scored(trending_videos[p])], limit)
TrendingVideos(vs, category_id, limit) ==
    IF vs = <<>> THEN <<>>
    ELSE
    LET trending_videos == SelectSeq(vs, LAMBDA video :
            ~(~Falsy(category_id) /\ Get(video, "categoryId", None) # category_id))
        order == OrderDesc([i \in DOMAIN trending_videos |->
                              Get(trending_videos[i], "viewCount", 0)])
        Scored(video) ==
            LET view_count == Get(video, "viewCount", 0)
            IN  SetField(video, "score",
                         IF view_count > 0 THEN Log1pOver20(view_count) ELSE 0)
    IN  Take([p \in DOMAIN order |-> Scored(trending_videos[order[p]])], limit)

\* get_trending_videos without the copy of line 420: the scores are written
\* into the catalog's own records
TrendingInPlace ==
    /\ call = Idle
    /\ \E category_id \in CategoryFilters, limit \in Limits :
          /\ ret' = Ok(TrendingVideos(videos, category_id, limit))
          /\ call' = [op |-> "trending", category_id |-> category_id, limit |-> limit]
          /\ videos' = [i \in DOMAIN videos |->
                IF ~Falsy(category_id) /\ Get(videos[i], "categoryId", None) # category_id
                THEN videos[i]
                ELSE SetField(videos[i], "score",
                              IF Get(videos[i], "viewCount", 0) > 0
                              THEN Log1pOver20(Get(videos[i], "viewCount", 0)) ELSE 0)]
    /\ UNCHANGED <<watch_history, video_ids, tfidf_matrix>>
Trending ==
    /\ call = Idle
    /\ \E category_id \in CategoryFilters, limit \in Limits :
          /\ ret' = Ok(TrendingVideos(videos, category_id, limit))
          /\ call' = [op |-> "trending", category_id |-> category_id, limit |-> limit]
    /\ UNCHANGED engine

---------------------------------------------------------------------------
(* get_hybrid_recommendations *)

\* lines 362-396: both lists non-empty, 60% content + 40% collaborative
FuseNoDedup(content_recs, collab_recs, limit) ==
    LET all_recs == content_recs \o collab_recs
        hybrid_recs == [i \in DOMAIN all_recs |->
            SetField(all_recs[i], "score",
                     IF i <= Len(content_recs) THEN (6 * all_recs[i].score) \div 10
                     ELSE (4 * all_recs[i].score) \div 10)]
        order == OrderDesc([i \in DOMAIN hybrid_recs |-> hybrid_recs[i].score])
    IN  Take([p \in DOMAIN order |-> hybrid_recs[order[p]]], limit)
Fuse(content_recs, collab_recs, limit) ==
    LET keys == Distinct([i \in DOMAIN content_recs |-> content_recs[i].id]
                         \o [i \in DOMAIN collab_recs |-> collab_recs[i].id])
        InContent(id) == \E i \in DOMAIN content_recs : content_recs[i].id = id
        InCollab(id) == \E i \in DOMAIN collab_recs : collab_recs[i].id = id
        ContentRec(id) == content_recs[CHOOSE i \in DOMAIN content_recs : content_recs[i].id = id]
        CollabRec(id) == collab_recs[CHOOSE i \in DOMAIN collab_recs : collab_recs[i].id = id]
        all_recs == [k \in DOMAIN keys |->
            [video |-> IF InContent(keys[k]) THEN ContentRec(keys[k]) ELSE CollabRec(keys[k]),
             content_score |-> IF InContent(keys[k]) THEN ContentRec(keys[k]).score ELSE 0,
             collab_score |-> IF InCollab(keys[k]) THEN CollabRec(keys[k]).score ELSE 0]]
        hybrid_recs == [k \in DOMAIN all_recs |->
            SetField(all_recs[k].video, "score",
                     (6 * all_recs[k].content_score + 4 * all_recs[k].collab_score) \div 10)]
        order == OrderDesc([k \in DOMAIN hybrid_recs |-> hybrid_recs[k].score])
    IN  Take([p \in DOMAIN order |-> hybrid_recs[order[p]]], limit)

\* The branch taken for one content result: "raise", "fused", "content",
\* "collab" or "trending"
HybridBranch(content, collab_recs) ==
    IF content.status = "raised" THEN "raise"
    ELSE IF content.value # <<>> /\ collab_recs # <<>> THEN "fused"
    ELSE IF content.value # <<>> THEN "content"
    ELSE IF collab_recs # <<>> THEN "collab"
    ELSE "trending"

\* content_recs: the possible results of lines 347-352
HybridContent(vs, ids, matrix, video_id, category_id, limit) ==
    IF ~Falsy(video_id) /\ video_id \in Keys(vs)
    THEN ContentRecommendations(vs, ids, matrix, video_id, limit, category_id)
    ELSE {Ok(<<>>)}

\* collab_recs: lines 355-360
HybridCollab(vs, h, user_id, category_id, limit) ==
    IF ~FalsyInt(user_id) /\ user_id \in HKeys(h)
    THEN CollaborativeRecommendations(vs, h, user_id, limit, category_id)
    ELSE <<>>

\* lines 362-405, for one content result
HybridReturnNoFallback(vs, content, collab_recs, category_id, limit) ==
    IF content.status = "raised" THEN content
    ELSE IF content.value # <<>> /\ collab_recs # <<>>
         THEN Ok(Fuse(content.value, collab_recs, limit))
    ELSE IF content.value # <<>> THEN content
    ELSE Ok(collab_recs)
HybridReturn(vs, content, collab_recs, category_id, limit) ==
    IF content.status = "raised" THEN content
    ELSE IF content.value # <<>> /\ collab_recs # <<>>
         THEN Ok(Fuse(content.value, collab_recs, limit))
    ELSE IF content.value # <<>> THEN content
    ELSE IF collab_recs # <<>> THEN Ok(collab_recs)
    ELSE Ok(TrendingVideos(vs, category_id, limit))

RecommendHybrid ==
    /\ call = Idle
    /\ \E user_id \in UserIds, video_id \in VideoIds \cup {None},
          category_id \in CategoryFilters, limit \in Limits :
          \E content \in HybridContent(videos, video_ids, tfidf_matrix,
                                       video_id, category_id, limit) :
              /\ ret' = HybridReturn(videos, content,
                                     HybridCollab(videos, watch_history, user_id,
                                                  category_id, limit),
                                     category_id, limit)
              /\ call' = [op |-> "recommend_hybrid", user_id |-> user_id,
                          video_id |-> video_id, category_id |-> category_id,
                          limit |-> limit,
                          branch |-> HybridBranch(content,
                                        HybridCollab(videos, watch_history, user_id,
                                                     category_id, limit))]
    /\ UNCHANGED engine

GetHistory ==
    /\ call = Idle
    /\ \E user_id \in UserIds, limit \in Limits :
          /\ ret' = Ok(GetUserHistory(videos, watch_history, user_id, limit))
          /\ call' = [op |-> "get_user_history", user_id |-> user_id, limit |-> limit]
    /\ UNCHANGED engine

\* the caller takes the returned snapshot (or the exception); the engine is
\* ready for the next call
Return ==
    /\ call # Idle
    /\ call' = Idle
    /\ ret' = NoRet
    /\ UNCHANGED engine

---------------------------------------------------------------------------
(* The engine after __init__, and its calls *)

Init ==
    /\ videos = <<>>
    /\ watch_history = <<>>
    /\ video_ids = <<>>
    /\ tfidf_matrix = NoMatrix
    /\ call = Idle
    /\ ret = NoRet

Next ==
    \/ AddVideos
    \/ AddToHistory
    \/ ClearHistory
    \/ GetHistory
    \/ RecommendByContent
    \/ RecommendByCollaboration
    \/ RecommendHybrid
    \/ Trending
    \/ Return

\* calls with records as the video source provider builds them (each has an id)
Spec == Init /\ [][Next]_vars

NextMalformed == Next \/ AddVideosMalformed

\* the same, with batches that hold a record without an id
SpecMalformed == Init /\ [][NextMalformed]_vars

---------------------------------------------------------------------------
(* recommend_by_content on a stale index: the calls that reach Method 2 *)

\* VB2 shares channel and category with VA1 and none of its tags; VC2 shares
\* neither channel nor category with VA1 and all of its tags
VB2 == [id |-> "B", title |-> "cats", channelTitle |-> "X", categoryId |-> "1",
        tags |-> <<"q">>, viewCount |-> 7]
VC2 == [id |-> "C", channelTitle |-> "Y", categoryId |-> "2", tags |-> <<"p">>]

\* batches that build an index (VB1, VB2 hold a term), and batches that store
\* records and raise before the index is rebuilt
ManualBatches == {<<VB1>>, <<VB2>>, <<VC2, VBad>>, <<VC1, VBad>>, <<VA1, VBad>>,
                  <<VA1, VC2, VBad>>}

AddVideosManual ==
    /\ call = Idle
    /\ \E batch \in ManualBatches : AddVideosTo(batch)

NextManual == AddVideosManual \/ RecommendByContent \/ Return

SpecManual == Init /\ [][NextManual]_vars

---------------------------------------------------------------------------
(* add_videos and recommend_by_content as two threads on one engine.  The     *)
(* engine takes no lock, so each statement that reads or writes a field of   *)
(* the engine is a step of its own.  call holds the frames of both threads.  *)

Threads(writer, reader) == [op |-> "threads", writer |-> writer, reader |-> reader]

\* both threads are started: add_videos(videos_list) and
\* get_content_based_recommendations(source_video_id, limit)
BeginThreads ==
    /\ call = Idle
    /\ \E videos_list \in Batches \ {<<>>}, source_video_id \in VideoIds, limit \in Limits :
          call' = Threads(
              [pc |-> "store", videos_list |-> videos_list, i |-> 1,
               before |-> [video_ids |-> video_ids, tfidf_matrix |-> tfidf_matrix],
               after |-> UpdateContentVectors(StoreAll(videos, videos_list, 1).videos,
                                              video_ids, tfidf_matrix)],
              [pc |-> "line190", source_video_id |-> source_video_id, limit |-> limit])
    /\ ret' = NoRet
    /\ UNCHANGED engine

\* line 38, once per record of the batch
WriterStore ==
    /\ call.op = "threads"
    /\ call.writer.pc = "store"
    /\ videos' = DictStore(videos, call.writer.videos_list[call.writer.i])
    /\ call' = [call EXCEPT !.writer.i = @ + 1,
                            !.writer.pc = IF call.writer.i = Len(call.writer.videos_list)
                                          THEN "line140" ELSE "store"]
    /\ UNCHANGED <<watch_history, video_ids, tfidf_matrix, ret>>

\* lines 115-140: self.video_ids = video_ids
WriterIds ==
    /\ call.op = "threads"
    /\ call.writer.pc = "line140"
    /\ video_ids' = KeyList(videos)
    /\ call' = [call EXCEPT !.writer.pc = "line144"]
    /\ UNCHANGED <<videos, watch_history, tfidf_matrix, ret>>

\* lines 143-148: self.tfidf_matrix = fit_transform(content_texts), or None
WriterMatrix ==
    /\ call.op = "threads"
    /\ call.writer.pc = "line144"
    /\ tfidf_matrix' = FitTransform([i \in DOMAIN videos |-> Document(videos[i])])
    /\ call' = [call EXCEPT !.writer.pc = "done"]
    /\ UNCHANGED <<videos, watch_history, video_ids, ret>>

ReaderDone(value) ==
    /\ ret' = value
    /\ call' = [call EXCEPT !.reader.pc = "done"]

\* lines 190-192
ReaderSource ==
    /\ call.op = "threads"
    /\ call.reader.pc = "line190"
    /\ IF call.reader.source_video_id \notin Keys(videos)
       THEN ReaderDone(Ok(<<>>))
       ELSE /\ call' = [call EXCEPT !.reader.pc = "line194"]
            /\ UNCHANGED ret
    /\ UNCHANGED engine

\* line 194: reads .shape of the matrix when it is None
ReaderShape ==
    /\ call.op = "threads"
    /\ call.reader.pc = "line194"
    /\ IF tfidf_matrix = NoMatrix
       THEN ReaderDone(Raised("AttributeError"))
       ELSE /\ call' = [call EXCEPT !.reader.pc = "line201"]
            /\ UNCHANGED ret
    /\ UNCHANGED engine

\* line 201: Method 1 when the matrix is there, else Method 2
ReaderMethod ==
    /\ call.op = "threads"
    /\ call.reader.pc = "line201"
    /\ IF tfidf_matrix = NoMatrix
       THEN ReaderDone(Ok(ManualRecommendations(videos, call.reader.source_video_id,
                                                call.reader.limit, None)))
       ELSE /\ call' = [call EXCEPT !.reader.pc = "line204"]
            /\ UNCHANGED ret
    /\ UNCHANGED engine

\* line 204: self.video_ids.index(source_video_id); ValueError leads to Method 2
ReaderIndex ==
    /\ call.op = "threads"
    /\ call.reader.pc = "line204"
    /\ IF call.reader.source_video_id \notin Range(video_ids)
       THEN ReaderDone(Ok(ManualRecommendations(videos, call.reader.source_video_id,
                                                call.reader.limit, None)))
       ELSE /\ call' = [call EXCEPT !.reader =
                          [k \in DOMAIN @ \cup {"seen_ids"} |->
                              IF k = "seen_ids" THEN video_ids
                              ELSE IF k = "pc" THEN "line207" ELSE @[k]]]
            /\ UNCHANGED ret
    /\ UNCHANGED engine

\* lines 207-210: the scores, from the matrix as it is now; a source index
\* beyond its rows, or a matrix that is None by now, raises inside the try
ReaderScores ==
    /\ call.op = "threads"
    /\ call.reader.pc = "line207"
    /\ IF \/ tfidf_matrix = NoMatrix
          \/ IndexOf(call.reader.seen_ids, call.reader.source_video_id)
                 > Len(tfidf_matrix.rows)
       THEN ReaderDone(Ok(ManualRecommendations(videos, call.reader.source_video_id,
                                                call.reader.limit, None)))
       ELSE /\ call' = [call EXCEPT !.reader =
                          [k \in DOMAIN @ \cup {"seen_matrix"} |->
                              IF k = "seen_matrix" THEN tfidf_matrix
                              ELSE IF k = "pc" THEN "line213" ELSE @[k]]]
            /\ UNCHANGED ret
    /\ UNCHANGED engine

\* lines 213-238: the ranking, over the scores computed and the id list and
\* catalog as they are now
ReaderRank ==
    /\ call.op = "threads"
    /\ call.reader.pc = "line213"
    /\ \E sorted \in ArgSorts(CosineSimilarity(call.reader.seen_matrix.rows,
                        IndexOf(call.reader.seen_ids, call.reader.source_video_id))) :
          ReaderDone(Ok(IndexRecommendations(videos, video_ids,
                            call.reader.seen_matrix.rows, call.reader.source_video_id,
                            call.reader.limit, None, sorted)))
    /\ UNCHANGED engine

\* both calls have returned
EndThreads ==
    /\ call.op = "threads"
    /\ call.writer.pc = "done"
    /\ call.reader.pc = "done"
    /\ call' = Idle
    /\ ret' = NoRet
    /\ UNCHANGED engine

NextRebuild ==
    \/ BeginThreads
    \/ WriterStore
    \/ WriterIds
    \/ WriterMatrix
    \/ ReaderSource
    \/ ReaderShape
    \/ ReaderMethod
    \/ ReaderIndex
    \/ ReaderScores
    \/ ReaderRank
    \/ EndThreads

SpecRebuild == Init /\ [][NextRebuild]_vars

---------------------------------------------------------------------------
(* Two add_to_history calls as two threads on one engine.  The statements of *)
(* add_to_history that touch self.watch_history are steps of their own: the  *)
(* key and catalog checks, the filter-and-reassign, the append.  call holds  *)
(* the frames of both calls and the order in which their steps ran.          *)

\* lines 65-68: the list without the items of video_id, assigned back
FilterItems(h, user_id, video_id) ==
    HStore(h, user_id,
           SelectSeq(HItems(h, user_id), LAMBDA item : item.video_id # video_id))

\* line 71: append to the list that is in the dict now
AppendItemDedup(h, user_id, history_item) ==
    HStore(h, user_id,
           Append(SelectSeq(HItems(h, user_id),
                            LAMBDA item : item.video_id # history_item.video_id),
                  history_item))
AppendItem(h, user_id, history_item) ==
    HStore(h, user_id, Append(HItems(h, user_id), history_item))

Frame(user_id, video_id, args) ==
    [pc |-> "line50", user_id |-> user_id, video_id |-> video_id,
     timestamp |-> args.timestamp, watched_percentage |-> args.watched_percentage]

\* the calls are started; the first is given (1, 50), the second (2, 90)
BeginAdds ==
    /\ call = Idle
    /\ TotalEntries(watch_history) + 2 <= MaxEntries
    /\ \E u1 \in UserIds, u2 \in UserIds, v1 \in WatchedIds, v2 \in WatchedIds :
          call' = [op |-> "adds",
                   frames |-> <<Frame(u1, v1, [timestamp |-> 1, watched_percentage |-> 50]),
                                Frame(u2, v2, [timestamp |-> 2, watched_percentage |-> 90])>>,
                   steps |-> <<>>]
    /\ ret' = NoRet
    /\ UNCHANGED engine

StepOf(t, pc, next) ==
    /\ call.op = "adds"
    /\ call.frames[t].pc = pc
    /\ call' = [call EXCEPT !.frames[t].pc = next,
                            !.steps = Append(@, [line |-> pc, thread |-> t])]
    /\ UNCHANGED <<videos, video_ids, tfidf_matrix, ret>>

\* lines 50-56: the user's key is created, then an unknown video ends the call
HistoryEnsure ==
    \E t \in 1..2 :
        LET f == call.frames[t] IN
        /\ StepOf(t, "line50", IF f.video_id \in Keys(videos) THEN "line65" ELSE "done")
        /\ watch_history' = IF f.user_id \notin HKeys(watch_history)
                            THEN HStore(watch_history, f.user_id, <<>>)
                            ELSE watch_history

\* lines 65-68
HistoryFilter ==
    \E t \in 1..2 :
        LET f == call.frames[t] IN
        /\ StepOf(t, "line65", "line71")
        /\ watch_history' = FilterItems(watch_history, f.user_id, f.video_id)

\* line 71
HistoryAppend ==
    \E t \in 1..2 :
        LET f == call.frames[t] IN
        /\ StepOf(t, "line71", "done")
        /\ watch_history' = AppendItem(watch_history, f.user_id,
                                [video_id |-> f.video_id, timestamp |-> f.timestamp,
                                 watched_percentage |-> f.watched_percentage])

\* both calls have returned
EndAdds ==
    /\ call.op = "adds"
    /\ \A t \in 1..2 : call.frames[t].pc = "done"
    /\ call' = Idle
    /\ ret' = NoRet
    /\ UNCHANGED engine

ReturnFromAddVideos ==
    /\ call.op = "add_videos"
    /\ Return

NextHistoryRace ==
    \/ AddVideos
    \/ ReturnFromAddVideos
    \/ ClearHistory
    \/ BeginAdds
    \/ HistoryEnsure
    \/ HistoryFilter
    \/ HistoryAppend
    \/ EndAdds

SpecHistoryRace == Init /\ [][NextHistoryRace]_vars

---------------------------------------------------------------------------
(* The handlers of src/streamlit_app.py.  Each handler constructs its own    *)
(* RecommendationEngine(); the engine variables are the fields of the        *)
(* instance the handler that ran last has constructed, ret is what the       *)
(* handlers have left in st.session_state, call is the handler and its       *)
(* inputs.  A handler runs from its first line to its last in one script run.*)

\* st.session_state.user_id
DefaultUserId == 1
\* limit=8 of the hybrid call, limit=20 of get_user_history
AppLimit == 8
HistoryLimit == 20

\* records as _convert_youtube_video builds them
PA == [id |-> "A", title |-> "cats", channel_title |-> "X", category_id |-> "1",
       tags |-> <<"p">>, view_count |-> 5]
PB == [id |-> "B", title |-> "cats", channel_title |-> "X", category_id |-> "1",
       tags |-> <<"p", "q">>, view_count |-> 7]
PC == [id |-> "C", title |-> "Untitled Video", channel_title |-> "Y",
       category_id |-> "2", tags |-> <<"q">>, view_count |-> 0]
\* the lists the provider returns for a trending or a search request
ProviderLists == {<<PA, PB>>, <<PA, PB, PC>>, <<PC>>}

\* lines 24-41; current_video is kept by its id
InitialSession ==
    [trending_videos |-> <<>>, search_results |-> <<>>, history |-> <<>>,
     recommendations |-> <<>>, current_video |-> None]
Session == IF "history" \in DOMAIN ret THEN ret ELSE InitialSession

\* RecommendationEngine(), then add_videos(videos_list) on it
NewEngineWith(videos_list) ==
    /\ watch_history' = <<>>
    /\ IF videos_list = <<>>
       THEN /\ videos' = <<>>
            /\ video_ids' = <<>>
            /\ tfidf_matrix' = NoMatrix
       ELSE LET stored == StoreAll(<<>>, videos_list, 1)
                index == UpdateContentVectors(stored.videos, <<>>, NoMatrix)
            IN  /\ videos' = stored.videos
                /\ video_ids' = index.video_ids
                /\ tfidf_matrix' = index.tfidf_matrix

\* load_initial_data: the trending videos are fetched and added once
LoadInitialData ==
    /\ IF Session.trending_videos = <<>>
       THEN \E trending \in ProviderLists :
               /\ NewEngineWith(trending)
               /\ ret' = [Session EXCEPT !.trending_videos = trending]
       ELSE /\ NewEngineWith(<<>>)
            /\ ret' = Session
    /\ call' = [op |-> "load_initial_data"]

\* handle_search, with a query that is not empty
HandleSearch ==
    \E search_results \in ProviderLists \cup {<<>>} :
        /\ NewEngineWith(search_results)
        /\ ret' = [Session EXCEPT !.search_results = search_results]
        /\ call' = [op |-> "handle_search"]

\* handle_video_selection: found tells whether get_video_details returned a
\* record; the history and the recommendations come from the new engine
HandleVideoSelection ==
    \E video_id \in VideoIds, found \in BOOLEAN, category_id \in CategoryFilters,
       watched_percentage \in {20, 100} :
        LET h == HistoryAfterAdd(<<>>, <<>>, DefaultUserId, video_id, Now,
                                 watched_percentage)
            history == GetUserHistory(<<>>, h, DefaultUserId, HistoryLimit)
        IN  /\ videos' = <<>>
            /\ video_ids' = <<>>
            /\ tfidf_matrix' = NoMatrix
            /\ watch_history' = IF found THEN h ELSE <<>>
            /\ call' = [op |-> "handle_video_selection", video_id |-> video_id,
                        found |-> found, category_id |-> category_id]
            /\ IF ~found THEN ret' = Session
               ELSE \E content \in HybridContent(<<>>, <<>>, NoMatrix, video_id,
                                                 category_id, AppLimit) :
                       LET recommendations ==
                               HybridReturn(<<>>, content,
                                   HybridCollab(<<>>, h, DefaultUserId, category_id,
                                                AppLimit),
                                   category_id, AppLimit)
                       IN  ret' = [Session EXCEPT
                                     !.current_video = video_id,
                                     !.history = history,
                                     !.recommendations = recommendations.value]

\* clear_history of the page
ClearHistoryOfPage ==
    /\ videos' = <<>>
    /\ video_ids' = <<>>
    /\ tfidf_matrix' = NoMatrix
    /\ watch_history' = HistoryAfterClear(<<>>, DefaultUserId)
    /\ ret' = [Session EXCEPT !.history = <<>>]
    /\ call' = [op |-> "clear_history"]

NextApp ==
    \/ LoadInitialData
    \/ HandleSearch
    \/ HandleVideoSelection
    \/ ClearHistoryOfPage

SpecApp == Init /\ [][NextApp]_vars

---------------------------------------------------------------------------
(* get_collaborative_recommendations over histories of seven users, so that  *)
(* the target can have more than five neighbours                             *)

CollabUserIds == {0, 1, 2, 3, 4, 5, 6}

HistoryItem(video_id, watched_percentage) ==
    [video_id |-> video_id, timestamp |-> 1, watched_percentage |-> watched_percentage]

\* the lists a user's add_to_history calls have left
HistoryOptions ==
    {<<HistoryItem("A", 90)>>,
     <<HistoryItem("A", 50), HistoryItem("B", 50)>>,
     <<HistoryItem("A", 50), HistoryItem("B", 90), HistoryItem("C", 90)>>,
     <<HistoryItem("C", 50)>>}

\* the lists of the users the model never asks recommendations for
OverlappingOptions == {items \in HistoryOptions : "A" \in Watched(items)}

\* the engine after add_videos([VA1, VB1, VC1]) and after the add_to_history
\* calls of the seven users, in the order of their ids
InitCollab ==
    /\ videos = StoreAll(<<>>, <<VA1, VB1, VC1>>, 1).videos
    /\ video_ids = UpdateContentVectors(videos, <<>>, NoMatrix).video_ids
    /\ tfidf_matrix = UpdateContentVectors(videos, <<>>, NoMatrix).tfidf_matrix
    /\ \E lists \in [CollabUserIds -> HistoryOptions] :
          /\ \A u \in CollabUserIds \ UserIds : lists[u] \in OverlappingOptions
          /\ watch_history = [i \in 1 .. Cardinality(CollabUserIds) |->
                                [user_id |-> i - 1, items |-> lists[i - 1]]]
    /\ call = Idle
    /\ ret = NoRet

NextCollab == RecommendByCollaboration \/ Return

SpecCollab == InitCollab /\ [][NextCollab]_vars

---------------------------------------------------------------------------
(* The calls on the watch history with a third user, so that a user has a    *)
(* neighbour other than the one whose history is cleared                     *)

OtherUserIds == {2}

\* add_to_history for the third user, given (1, 50)
AddToHistoryOfOther ==
    /\ call = Idle
    /\ \E user_id \in OtherUserIds, video_id \in WatchedIds :
          LET h2 == HistoryAfterAdd(videos, watch_history, user_id, video_id, 1, 50)
          IN  /\ TotalEntries(h2) <= MaxEntries
              /\ watch_history' = h2
              /\ call' = [op |-> "add_to_history", user_id |-> user_id,
                          video_id |-> video_id, timestamp |-> 1,
                          watched_percentage |-> 50,
                          replaced |-> {item \in Range(HItems(watch_history, user_id)) :
                                          item.video_id = video_id}]
              /\ ret' = Ok(<<>>)
    /\ UNCHANGED <<videos, video_ids, tfidf_matrix>>

NextThreeUsers ==
    \/ AddVideos
    \/ AddToHistory
    \/ AddToHistoryOfOther
    \/ ClearHistory
    \/ RecommendByCollaboration
    \/ Return

SpecThreeUsers == Init /\ [][NextThreeUsers]_vars

---------------------------------------------------------------------------
(* calculate_similarity, called on its own with any two records *)

\* None: the record has no such key
ScorerChannels == {None, "X", "Y"}
ScorerCategories == {None, "1", "2"}
\* the record has no key "tags"
NoTags == <<None>>
ScorerTags == {NoTags, <<>>, <<"p">>, <<"q">>, <<"p", "q">>}

ScorerVideo(channel, category, tags) ==
    [k \in {"id"} \cup (IF channel = None THEN {} ELSE {"channelTitle"})
                  \cup (IF category = None THEN {} ELSE {"categoryId"})
                  \cup (IF tags = NoTags THEN {} ELSE {"tags"}) |->
        CASE k = "id" -> "A"
          [] k = "channelTitle" -> channel
          [] k = "categoryId" -> category
          [] k = "tags" -> tags]

ScorerVideos ==
    {ScorerVideo(channel, category, tags) :
        channel \in ScorerChannels, category \in ScorerCategories, tags \in ScorerTags}

Similarity ==
    /\ call = Idle
    /\ \E video_a \in ScorerVideos, video_b \in ScorerVideos :
          /\ ret' = Ok(CalculateSimilarity(video_a, video_b))
          /\ call' = [op |-> "calculate_similarity", video_a |-> video_a,
                      video_b |-> video_b]
    /\ UNCHANGED engine

NextScorer == Similarity \/ Return

SpecScorer == Init /\ [][NextScorer]_vars

---------------------------------------------------------------------------
(* Properties of the catalog *)

BatchIds(batch) == {batch[i].id : i \in DOMAIN batch}
LastWithId(batch, id) ==
    batch[CHOOSE i \in DOMAIN batch :
            batch[i].id = id /\ \A j \in DOMAIN batch : j > i => batch[j].id # id]

\* C1: every add_videos call leaves each id of its batch mapped to exactly the
\* last record of the batch with that id (no field of an earlier record
\* survives), adds no other id and changes no other record; no other call
\* changes the catalog.  Hence after any sequence of calls each id maps to the
\* record of the most recent call that held it.
C1_LastWriteWins ==
    [][ /\ call'.op = "add_videos" =>
              /\ Keys(videos') = Keys(videos) \cup BatchIds(call'.videos_list)
              /\ Cardinality(Keys(videos')) = Len(videos')
              /\ \A id \in Keys(videos') :
                    Video(videos', id) =
                        IF id \in BatchIds(call'.videos_list)
                        THEN LastWithId(call'.videos_list, id)
                        ELSE Video(videos, id)
        /\ call'.op # "add_videos" => videos' = videos ]_vars

\* "B" is stored only together with VA1, so VA1 was the record of "A" before
\* this call replaced it by VA2, which has no title
C1_Overwritten ==
    /\ call.op = "add_videos"
    /\ call.videos_list = <<VA2>>
    /\ "B" \in Keys(videos)
    /\ Video(videos, "A") = VA2
    /\ "title" \notin DOMAIN Video(videos, "A")

---------------------------------------------------------------------------
(* Properties of the watch history *)

EntriesOf(h, u, v) == {item \in Range(HItems(h, u)) : item.video_id = v}
CountOf(h, u, v) ==
    Cardinality({i \in DOMAIN HItems(h, u) : HItems(h, u)[i].video_id = v})

\* C2: after every call each user's history holds at most one entry per video;
\* a successful add_to_history leaves for its (user, video) pair exactly the
\* entry with the call's timestamp (now, when none is given) and percentage,
\* and every other pair as it was; only add_to_history and clear_history
\* change the history.
C2_OneEntryPerVideo ==
    [][ /\ \A u \in UserIds, v \in VideoIds : CountOf(watch_history', u, v) <= 1
        /\ (call'.op = "add_to_history" /\ call'.video_id \in Keys(videos)) =>
              \A u \in UserIds, v \in VideoIds :
                  EntriesOf(watch_history', u, v) =
                      IF u = call'.user_id /\ v = call'.video_id
                      THEN {[video_id |-> v,
                             timestamp |-> IF call'.timestamp = NoTime THEN Now
                                           ELSE call'.timestamp,
                             watched_percentage |-> call'.watched_percentage]}
                      ELSE EntriesOf(watch_history, u, v)
        /\ call'.op \notin {"add_to_history", "clear_history"} =>
              watch_history' = watch_history ]_vars

\* percentage 50, then 90 for the same user and video: one entry, with 90
C2_Replaced ==
    /\ call.op = "add_to_history"
    /\ call.watched_percentage = 90
    /\ \E item \in call.replaced : item.watched_percentage = 50
    /\ CountOf(watch_history, call.user_id, call.video_id) = 1
    /\ \A item \in EntriesOf(watch_history, call.user_id, call.video_id) :
          item.watched_percentage = 90

---------------------------------------------------------------------------
(* Properties of the failure handling *)

\* C3: when the TF-IDF matrix is absent and the source is in the catalog,
\* recommend_by_content does not raise and returns the ranking of the manual
\* scorer over the other catalog videos.
C3_FallsBackToManual ==
    (/\ call.op = "recommend_by_content"
     /\ tfidf_matrix = NoMatrix
     /\ call.source_video_id \in Keys(videos)) =>
        ret = Ok(ManualRecommendations(videos, call.source_video_id,
                                       call.limit, call.category_id))

\* the call is made with the matrix absent and the source in the catalog
C3_IndexUnavailable ==
    /\ call.op = "recommend_by_content"
    /\ tfidf_matrix = NoMatrix
    /\ call.source_video_id \in Keys(videos)
    /\ ret.status = "raised"

\* C4: add_videos returns normally whatever the batch holds, every record of
\* the batch that has an id is stored, and the index lists exactly the ids of
\* the resulting catalog.
C4_MalformedRecordTolerated ==
    call.op = "add_videos" =>
        /\ ret.status = "ok"
        /\ \A i \in DOMAIN call.videos_list :
              "id" \in DOMAIN call.videos_list[i] =>
                  call.videos_list[i].id \in Keys(videos)
        /\ video_ids = KeyList(videos)

\* a batch with a record without id after and before well-formed ones: the
\* call raised, the record before is stored, the one after is not, and the
\* index does not list the stored one
C4_HalfUpdated ==
    /\ call.op = "add_videos"
    /\ call.videos_list = <<VC1, VBad, VA1>>
    /\ ret.status = "raised"
    /\ "C" \in Keys(videos)
    /\ "A" \notin Keys(videos)
    /\ "C" \notin Range(video_ids)

\* C5: clear_history(u), for every user id u that add_to_history accepts,
\* leaves get_user_history(u) empty and the entries of every other user as
\* they were.
C5_ClearsOnlyThatUser ==
    [][ (call'.op = "clear_history" /\ call'.user_id \in UserIds) =>
           /\ GetUserHistory(videos', watch_history', call'.user_id, MaxEntries) = <<>>
           /\ \A u \in UserIds \ {call'.user_id} :
                 HItems(watch_history', u) = HItems(watch_history, u) ]_vars

\* clear_history(0) dropped the items of user 1
C5_FalsyUserCleared ==
    /\ call.op = "clear_history"
    /\ call.user_id = 0
    /\ 1 \in call.cleared
    /\ HItems(watch_history, 1) = <<>>

---------------------------------------------------------------------------
(* Properties of the recommendation queries *)

Ids(recs) == [i \in DOMAIN recs |-> recs[i].id]
NoDuplicates(seq) == \A i, j \in DOMAIN seq : seq[i] = seq[j] => i = j
Queries == {"recommend_by_content", "recommend_by_collaboration",
            "recommend_hybrid", "trending"}

\* C6: the list recommend_by_content returns has at most limit items and none
\* of them is the source, on the index path and on the manual path, with and
\* without a category filter.
C6_NoSourceAtMostLimit ==
    (call.op = "recommend_by_content" /\ ret.status = "ok") =>
        /\ Len(ret.value) <= call.limit
        /\ call.source_video_id \notin Range(Ids(ret.value))

\* the manual path returned as many items as the limit allows
C6_ManualPathFull ==
    /\ call.op = "recommend_by_content"
    /\ call.path = "manual"
    /\ ret.status = "ok"
    /\ call.limit >= 1
    /\ Len(ret.value) = call.limit

\* C7: with a category filter, a result of fewer than limit items holds every
\* catalog video other than the source whose category is the filter (the
\* filter is applied before the truncation to limit).
C7_FilterBeforeTruncation ==
    (/\ call.op = "recommend_by_content"
     /\ ret.status = "ok"
     /\ ~Falsy(call.category_id)
     /\ call.source_video_id \in Keys(videos)
     /\ Len(ret.value) < call.limit) =>
        \A i \in DOMAIN videos :
            (/\ videos[i].id # call.source_video_id
             /\ Get(videos[i], "categoryId", None) = call.category_id) =>
                videos[i].id \in Range(Ids(ret.value))

\* the index path with a filter returned nothing for limit 2, though "C" is
\* of the category asked for
C7_MatchingVideoMissing ==
    /\ call.op = "recommend_by_content"
    /\ call.path = "index"
    /\ call.category_id = "2"
    /\ call.source_video_id = "A"
    /\ call.limit = 2
    /\ "C" \in Keys(videos)
    /\ ret = Ok(<<>>)

\* C8: the list recommend_hybrid returns has no two records with the same id
\* and at most limit items, in every branch.
C8_HybridNoDuplicates ==
    (call.op = "recommend_hybrid" /\ ret.status = "ok") =>
        /\ NoDuplicates(Ids(ret.value))
        /\ Len(ret.value) <= call.limit

\* the fused branch, with a video that is in the content list and in the
\* collaborative list
C8_FusedOverlap ==
    /\ call.op = "recommend_hybrid"
    /\ call.branch = "fused"
    /\ LET collab_recs == HybridCollab(videos, watch_history, call.user_id,
                                       call.category_id, call.limit)
       IN  \E content \in HybridContent(videos, video_ids, tfidf_matrix, call.video_id,
                                        call.category_id, call.limit) :
              /\ content.status = "ok"
              /\ ret = HybridReturn(videos, content, collab_recs,
                                    call.category_id, call.limit)
              /\ Range(Ids(content.value)) \cap Range(Ids(collab_recs)) # {}
              /\ Range(Ids(content.value)) \cap Range(Ids(collab_recs))
                     \subseteq Range(Ids(ret.value))

\* C9: every record a recommendation query returns carries a score in [0, 1].
C9_ScoreInUnitInterval ==
    (call.op \in Queries /\ ret.status = "ok") =>
        \A i \in DOMAIN ret.value :
            /\ "score" \in DOMAIN ret.value[i]
            /\ ret.value[i].score >= 0
            /\ ret.value[i].score <= ONE

\* trending returned a video of 10^9 views with a score above 1
C9_TrendingAboveOne ==
    /\ call.op = "trending"
    /\ \E i \in DOMAIN ret.value :
          /\ ret.value[i].viewCount = 1000000000
          /\ ret.value[i].score > ONE

\* C10 as stated: add_to_history with a video_id that is not in the catalog
\* raises nothing and leaves the watch history (its user keys included), the
\* catalog and the index as they were.
C10_UnknownVideoChangesNothing ==
    [][ (call'.op = "add_to_history" /\ call'.video_id \notin Keys(videos)) =>
           /\ ret'.status = "ok"
           /\ watch_history' = watch_history
           /\ <<videos, video_ids, tfidf_matrix>>' = <<videos, video_ids, tfidf_matrix>> ]_vars

\* C10, amended: add_to_history with a video_id that is not in the catalog
\* raises nothing, adds no entry and changes no user's entries, and leaves the
\* catalog and the index as they were; the user of the call becomes a key of
\* the watch history, with no entries, when it was none.
C10_UnknownVideoAddsNoEntry ==
    [][ (call'.op = "add_to_history" /\ call'.video_id \notin Keys(videos)) =>
           /\ ret'.status = "ok"
           /\ \A u \in UserIds : HItems(watch_history', u) = HItems(watch_history, u)
           /\ HKeys(watch_history') = HKeys(watch_history) \cup {call'.user_id}
           /\ <<videos, video_ids, tfidf_matrix>>' = <<videos, video_ids, tfidf_matrix>> ]_vars

\* the call named an unknown video; its user is a key without entries
C10_UnknownVideo ==
    /\ call.op = "add_to_history"
    /\ call.video_id \notin Keys(videos)
    /\ call.user_id \in HKeys(watch_history)
    /\ HItems(watch_history, call.user_id) = <<>>
    /\ ret.status = "ok"

---------------------------------------------------------------------------
(* Properties of queries with unknown identifiers *)

\* C11: recommend_by_content with a source that is not in the catalog, and
\* recommend_by_collaboration and get_user_history with a user that is no key
\* of the watch history, return the empty list and raise nothing.
C11_UnknownIdGivesEmpty ==
    /\ (call.op = "recommend_by_content" /\ call.source_video_id \notin Keys(videos)) =>
           ret = Ok(<<>>)
    /\ (/\ call.op \in {"recommend_by_collaboration", "get_user_history"}
        /\ call.user_id \notin HKeys(watch_history)) =>
           ret = Ok(<<>>)

\* an unknown source, asked of an engine that holds videos but no matrix: the
\* state in which a known source makes the query raise
C11_UnknownSourceNoMatrix ==
    /\ call.op = "recommend_by_content"
    /\ call.source_video_id \notin Keys(videos)
    /\ videos # <<>>
    /\ tfidf_matrix = NoMatrix
    /\ ret = Ok(<<>>)

---------------------------------------------------------------------------
(* Properties of get_user_history *)

\* the entry of user u for video v (there is at most one)
EntryOf(h, u, v) == CHOOSE item \in EntriesOf(h, u, v) : TRUE

\* C12: get_user_history(u, limit) returns at most limit records, one per
\* entry of u, each the catalog record of its entry with the entry's
\* watched_percentage; the entries listed have non-increasing timestamps, and
\* no entry left out has a greater timestamp than a listed one, whatever the
\* order the entries were added in.
C12_HistoryNewestFirst ==
    call.op = "get_user_history" =>
        /\ ret.status = "ok"
        /\ Len(ret.value) = Min(call.limit, Len(HItems(watch_history, call.user_id)))
        /\ NoDuplicates(Ids(ret.value))
        /\ \A p \in DOMAIN ret.value :
              /\ EntriesOf(watch_history, call.user_id, ret.value[p].id) # {}
              /\ ret.value[p] =
                    SetField(Video(videos, ret.value[p].id), "watched_percentage",
                             EntryOf(watch_history, call.user_id,
                                     ret.value[p].id).watched_percentage)
        /\ \A p, q \in DOMAIN ret.value :
              p < q => EntryOf(watch_history, call.user_id, ret.value[p].id).timestamp
                         >= EntryOf(watch_history, call.user_id, ret.value[q].id).timestamp
        /\ \A p \in DOMAIN ret.value :
              \A item \in Range(HItems(watch_history, call.user_id)) :
                  item.video_id \notin Range(Ids(ret.value)) =>
                      item.timestamp
                          <= EntryOf(watch_history, call.user_id, ret.value[p].id).timestamp

\* the entry added last has the earlier timestamp: it is listed after the
\* newer one
C12_LaterAddedOlder ==
    /\ call.op = "get_user_history"
    /\ call.limit = 2
    /\ Len(HItems(watch_history, call.user_id)) = 2
    /\ HItems(watch_history, call.user_id)[1].timestamp
          > HItems(watch_history, call.user_id)[2].timestamp
    /\ Ids(ret.value) = <<HItems(watch_history, call.user_id)[1].video_id,
                          HItems(watch_history, call.user_id)[2].video_id>>

---------------------------------------------------------------------------
(* Properties of the manual scorer *)

\* C13: calculate_similarity(v, v) = 1.0 for every record v, those without
\* tags and those without channel or category included.
C13_SelfSimilarityIsOne ==
    (call.op = "calculate_similarity" /\ call.video_a = call.video_b) =>
        ret = Ok(ONE)

\* a record with channel and category and an empty tag list, scored against
\* itself: 0.5 + 0.3
C13_NoTagsBelowOne ==
    /\ call.op = "calculate_similarity"
    /\ call.video_a = call.video_b
    /\ call.video_a = ScorerVideo("X", "1", <<>>)
    /\ ret = Ok((8 * ONE) \div 10)

\* C14: calculate_similarity(a, b) = calculate_similarity(b, a) for all
\* records a and b.
C14_Symmetric ==
    call.op = "calculate_similarity" =>
        ret = Ok(CalculateSimilarity(call.video_b, call.video_a))

\* two records with tag sets of different sizes that overlap: Jaccard 1/2
C14_PartialOverlap ==
    /\ call.op = "calculate_similarity"
    /\ call.video_a = ScorerVideo("X", None, <<"p">>)
    /\ call.video_b = ScorerVideo("Y", "1", <<"p", "q">>)
    /\ ret = Ok(ONE \div 10)

---------------------------------------------------------------------------
(* Properties of get_collaborative_recommendations *)

\* the users other than u whose watched set overlaps that of u
Neighbours(h, u) ==
    {h[i].user_id : i \in {k \in DOMAIN h :
        /\ h[k].user_id # u
        /\ Watched(h[k].items) \cap Watched(HItems(h, u)) # {}}}

\* C15: every record recommend_by_collaboration(u, limit, category) returns
\* is a catalog record (with a score) of a video that u has not watched, that
\* a user whose watched set overlaps that of u has watched, and whose category
\* is the filter when one is given.
C15_CollabCandidates ==
    (call.op = "recommend_by_collaboration" /\ ret.status = "ok") =>
        \A p \in DOMAIN ret.value :
            /\ ret.value[p].id \in Keys(videos)
            /\ ret.value[p] = SetField(Video(videos, ret.value[p].id), "score",
                                       ret.value[p].score)
            /\ ret.value[p].id \notin Watched(HItems(watch_history, call.user_id))
            /\ \E o \in Neighbours(watch_history, call.user_id) :
                  ret.value[p].id \in Watched(HItems(watch_history, o))
            /\ ~Falsy(call.category_id) =>
                  Get(ret.value[p], "categoryId", None) = call.category_id

\* with the filter "2", a neighbour's video of category 2 is returned while
\* the neighbour also watched a video of another category
C15_FilteredCandidate ==
    /\ call.op = "recommend_by_collaboration"
    /\ call.category_id = "2"
    /\ Len(ret.value) = 1
    /\ ret.value[1].id = "C"
    /\ \E o \in Neighbours(watch_history, call.user_id) :
          Watched(HItems(watch_history, o)) = {"B", "C"}

\* the videos the neighbours of u watched and u did not, that are in the
\* catalog and of the category asked for
CollabCandidates(vs, h, u, category_id) ==
    {c \in Keys(vs) :
        /\ c \notin Watched(HItems(h, u))
        /\ \E o \in Neighbours(h, u) : c \in Watched(HItems(h, o))
        /\ ~Falsy(category_id) => Get(Video(vs, c), "categoryId", None) = category_id}

\* C16: when u has at most 5 neighbours and they give at most limit
\* candidates, recommend_by_collaboration(u) returns every candidate: each
\* catalog video that a user sharing a watched video with u has watched and
\* u has not.
C16_CollabReturnsCandidates ==
    (/\ call.op = "recommend_by_collaboration"
     /\ Cardinality(Neighbours(watch_history, call.user_id)) <= TopNeighbours
     /\ Cardinality(CollabCandidates(videos, watch_history, call.user_id,
                                     call.category_id)) <= call.limit) =>
        /\ ret.status = "ok"
        /\ Range(Ids(ret.value)) = CollabCandidates(videos, watch_history, call.user_id,
                                                    call.category_id)
        /\ NoDuplicates(Ids(ret.value))

\* u watched {B}, the other user watched {B, C}: the result for u is [C]
C16_OnlyUnwatchedOverlap ==
    /\ call.op = "recommend_by_collaboration"
    /\ call.category_id = None
    /\ Watched(HItems(watch_history, call.user_id)) = {"B"}
    /\ \E o \in Neighbours(watch_history, call.user_id) :
          Watched(HItems(watch_history, o)) = {"B", "C"}
    /\ Ids(ret.value) = <<"C">>

---------------------------------------------------------------------------
(* Properties of the hybrid fallback and of trending *)

\* C17: when the content list and the collaborative list of a
\* recommend_hybrid call are both empty, the call returns what
\* trending(category_id, limit) returns in the same state.
C17_HybridFallsBackToTrending ==
    call.op = "recommend_hybrid" =>
        /\ call.branch = "trending" =>
              ret = Ok(TrendingVideos(videos, call.category_id, call.limit))
        /\ (/\ HybridContent(videos, video_ids, tfidf_matrix, call.video_id,
                             call.category_id, call.limit) = {Ok(<<>>)}
            /\ HybridCollab(videos, watch_history, call.user_id,
                            call.category_id, call.limit) = <<>>) =>
              /\ call.branch = "trending"
              /\ ret = Ok(TrendingVideos(videos, call.category_id, call.limit))

\* a known source with nothing to recommend under the filter and a user
\* without history: the videos of the category, by view count
C17_FallbackWithKnownSource ==
    /\ call.op = "recommend_hybrid"
    /\ call.branch = "trending"
    /\ call.video_id \in Keys(videos)
    /\ call.user_id \notin HKeys(watch_history)
    /\ call.category_id = "2"
    /\ ret.value # <<>>

\* the catalog videos of the category asked for
Matching(vs, category_id) ==
    {vs[i].id : i \in {k \in DOMAIN vs :
        Falsy(category_id) \/ Get(vs[k], "categoryId", None) = category_id}}

\* C18: trending(category_id, limit) returns at most limit records, each a
\* catalog record (with a score) of the category asked for, in non-increasing
\* order of view count; a matching video is left out only when limit records
\* are returned, and then its view count is not above that of any record
\* returned; on an empty catalog the result is the empty list.
C18_TrendingByViewCount ==
    call.op = "trending" =>
        /\ ret.status = "ok"
        /\ Len(ret.value) <= call.limit
        /\ NoDuplicates(Ids(ret.value))
        /\ videos = <<>> => ret.value = <<>>
        /\ \A p \in DOMAIN ret.value :
              /\ ret.value[p].id \in Matching(videos, call.category_id)
              /\ ret.value[p] = SetField(Video(videos, ret.value[p].id), "score",
                                         ret.value[p].score)
        /\ \A p, q \in DOMAIN ret.value :
              p < q => Get(ret.value[p], "viewCount", 0) >= Get(ret.value[q], "viewCount", 0)
        /\ \A id \in Matching(videos, call.category_id) \ Range(Ids(ret.value)) :
              /\ Len(ret.value) = call.limit
              /\ \A p \in DOMAIN ret.value :
                    Get(Video(videos, id), "viewCount", 0)
                        <= Get(ret.value[p], "viewCount", 0)

\* "A" was stored before "B" and has fewer views: with limit 1, "B" is
\* returned and "A" left out
C18_MostViewedFirst ==
    /\ call.op = "trending"
    /\ call.limit = 1
    /\ call.category_id = None
    /\ {"A", "B"} \subseteq Keys(videos)
    /\ Lookup(videos, "A") < Lookup(videos, "B")
    /\ Video(videos, "A").viewCount < Video(videos, "B").viewCount
    /\ Ids(ret.value) = <<"B">>

---------------------------------------------------------------------------
(* Properties of the queries' effect on the engine *)

QueryOps == Queries \cup {"get_user_history"}

\* C19: a call of get_user_history, recommend_by_content,
\* recommend_by_collaboration, recommend_hybrid or trending leaves the catalog,
\* the index and the watch history as they were, whether it returns or
\* raises; no catalog record ever has a score or a watched_percentage.
C19_QueriesChangeNothing ==
    [][ /\ call'.op \in QueryOps => engine' = engine
        /\ \A i \in DOMAIN videos' :
              {"score", "watched_percentage"} \cap DOMAIN videos'[i] = {} ]_vars

\* a query returned a record with a score; the catalog's record of that
\* video has none
C19_ScoreOnlyOnCopy ==
    /\ call.op \in Queries
    /\ ret.status = "ok"
    /\ \E p \in DOMAIN ret.value :
          /\ "score" \in DOMAIN ret.value[p]
          /\ "score" \notin DOMAIN Video(videos, ret.value[p].id)

---------------------------------------------------------------------------
(* Properties of the manual path of recommend_by_content *)

SharesBoth(video_a, video_b) ==
    /\ Get(video_a, "channelTitle", None) = Get(video_b, "channelTitle", None)
    /\ Get(video_a, "categoryId", None) = Get(video_b, "categoryId", None)
SharesNeither(video_a, video_b) ==
    /\ Get(video_a, "channelTitle", None) # Get(video_b, "channelTitle", None)
    /\ Get(video_a, "categoryId", None) # Get(video_b, "categoryId", None)

\* C20: on the manual path, recommend_by_content(s) lists every video that
\* shares channel and category with s before every video that shares neither,
\* whatever their tags; a video that shares both (and is of the category asked
\* for) is left out only when limit videos that share both are returned.
C20_ChannelAndCategoryFirst ==
    (/\ call.op = "recommend_by_content"
     /\ call.path = "manual"
     /\ ret.status = "ok") =>
        LET source_video == Video(videos, call.source_video_id)
        IN  /\ \A p, q \in DOMAIN ret.value :
                  (/\ SharesBoth(source_video, ret.value[p])
                   /\ SharesNeither(source_video, ret.value[q])) => p < q
            /\ \A i \in DOMAIN videos :
                  (/\ videos[i].id # call.source_video_id
                   /\ SharesBoth(source_video, videos[i])
                   /\ videos[i].id \in Matching(videos, call.category_id)
                   /\ videos[i].id \notin Range(Ids(ret.value))) =>
                      /\ Len(ret.value) = call.limit
                      /\ \A p \in DOMAIN ret.value :
                            SharesBoth(source_video, ret.value[p])

\* source A; C was stored before B, shares neither channel nor category with
\* A and all of its tags; B shares both and no tag: B is listed before C
C20_BeforeDespiteTags ==
    /\ call.op = "recommend_by_content"
    /\ call.path = "manual"
    /\ call.source_video_id = "A"
    /\ Ids(ret.value) = <<"B", "C">>
    /\ Lookup(videos, "C") < Lookup(videos, "B")
    /\ Video(videos, "A") = VA1
    /\ Video(videos, "B") = VB2
    /\ Video(videos, "C") = VC2

---------------------------------------------------------------------------
(* Properties of the engine under concurrent calls *)

\* the id list and the matrix the reading thread has worked with
SeenIndex == [video_ids |-> call.reader.seen_ids, tfidf_matrix |-> call.reader.seen_matrix]

ReaderHasSeenIndex ==
    /\ call.op = "threads"
    /\ "seen_matrix" \in DOMAIN call.reader

\* C21: while add_videos runs next to recommend_by_content, the id list and
\* the matrix the reader works with are those of one rebuild, the one before
\* the insert or the one after it, so the matrix has one row per listed id.
C21_ReaderSeesOneRebuild ==
    ReaderHasSeenIndex =>
        /\ SeenIndex \in {call.writer.before,
                          [video_ids |-> call.writer.after.video_ids,
                           tfidf_matrix |-> call.writer.after.tfidf_matrix]}
        /\ Len(SeenIndex.video_ids) = Len(SeenIndex.tfidf_matrix.rows)

\* the reader took the id list of the new rebuild and the matrix of the old
C21_TornIndex ==
    /\ ReaderHasSeenIndex
    /\ call.writer.before.tfidf_matrix # NoMatrix
    /\ SeenIndex.video_ids = call.writer.after.video_ids
    /\ SeenIndex.tfidf_matrix = call.writer.before.tfidf_matrix
    /\ Len(SeenIndex.video_ids) > Len(SeenIndex.tfidf_matrix.rows)

\* the place of a step in the order the steps of the two calls ran
StepAt(line, t) ==
    CHOOSE i \in DOMAIN call.steps : call.steps[i] = [line |-> line, thread |-> t]

BothAddsDoneSameVideo ==
    /\ call.op = "adds"
    /\ \A t \in 1..2 : call.frames[t].pc = "done"
    /\ call.frames[1].user_id = call.frames[2].user_id
    /\ call.frames[1].video_id = call.frames[2].video_id
    /\ call.frames[1].video_id \in Keys(videos)

\* both calls ran their filter-and-reassign before either ran its append
FiltersBeforeAppends ==
    \A t \in 1..2, u \in 1..2 : StepAt("line65", t) < StepAt("line71", u)

\* C22: two add_to_history calls for one user and one catalog video, with the
\* filter-and-reassign and the append as separate atomic steps, leave two
\* entries for the video when both filters ran before both appends, and one
\* entry in every other interleaving: the dedup is not safe without serializing.
C22_DuplicateWhenInterleaved ==
    BothAddsDoneSameVideo =>
        CountOf(watch_history, call.frames[1].user_id, call.frames[1].video_id)
            = IF FiltersBeforeAppends THEN 2 ELSE 1

\* both calls completed and the user's list holds both their entries for the video
C22_TwoEntriesForOneVideo ==
    /\ BothAddsDoneSameVideo
    /\ LET f == call.frames[1]
       IN  EntriesOf(watch_history, f.user_id, f.video_id)
             = {[video_id |-> f.video_id, timestamp |-> 1, watched_percentage |-> 50],
                [video_id |-> f.video_id, timestamp |-> 2, watched_percentage |-> 90]}

---------------------------------------------------------------------------
(* Properties of the presentation layer *)

TrendingIds == {Session.trending_videos[i].id : i \in DOMAIN Session.trending_videos}

SelectedTrendingVideo ==
    /\ call.op = "handle_video_selection"
    /\ call.found
    /\ call.video_id \in TrendingIds

\* C23: the handlers of the page work on one engine state: once
\* load_initial_data has added the trending videos, handle_video_selection of
\* one of them finds them in the catalog of its engine and leaves the video in
\* the user's watch history, on the engine and on the page.
C23_HandlersShareOneEngine ==
    SelectedTrendingVideo =>
        /\ TrendingIds \subseteq Keys(videos)
        /\ call.video_id \in Watched(HItems(watch_history, DefaultUserId))
        /\ call.video_id \in Range(Ids(Session.history))

\* a trending video was selected, and the handler's engine holds no video and
\* no history entry: the page shows an empty history and no recommendation
C23_SelectionOnEmptyEngine ==
    /\ SelectedTrendingVideo
    /\ videos = <<>>
    /\ HItems(watch_history, DefaultUserId) = <<>>
    /\ Session.history = <<>>
    /\ Session.recommendations = <<>>

---------------------------------------------------------------------------
(* Properties of the scores and of the order of the results *)

ScoreIn(recs, id) ==
    IF \E i \in DOMAIN recs : recs[i].id = id
    THEN recs[CHOOSE i \in DOMAIN recs : recs[i].id = id].score
    ELSE 0

NonIncreasing(recs) ==
    \A i, j \in DOMAIN recs : i < j => recs[i].score >= recs[j].score

\* the result of a hybrid call that did not go to the trending fallback
HybridFromSides ==
    /\ call.op = "recommend_hybrid"
    /\ ret.status = "ok"
    /\ call.branch \in {"fused", "content", "collab"}

HybridCollabOfCall ==
    HybridCollab(videos, watch_history, call.user_id, call.category_id, call.limit)

\* C24: every record recommend_hybrid returns from its two sides has the score
\* 0.6 x content_score + 0.4 x collab_score, a side the video is not on (or
\* that returned nothing) counting 0; the records are in non-increasing order
\* of that score and there are at most limit of them.
C24_FusedScoreEverywhere ==
    HybridFromSides =>
        /\ NonIncreasing(ret.value)
        /\ Len(ret.value) <= call.limit
        /\ \E content \in HybridContent(videos, video_ids, tfidf_matrix,
                                        call.video_id, call.category_id, call.limit) :
              /\ content.status = "ok"
              /\ \A i \in DOMAIN ret.value :
                    ret.value[i].score
                      = (6 * ScoreIn(content.value, ret.value[i].id)
                         + 4 * ScoreIn(HybridCollabOfCall, ret.value[i].id)) \div 10

\* only the content side returned records, and the call returns one of them
\* with its content score 1.0, not 0.6
C24_ContentScoreUnweighted ==
    /\ HybridFromSides
    /\ call.branch = "content"
    /\ HybridCollabOfCall = <<>>
    /\ \E i \in DOMAIN ret.value : ret.value[i].score = ONE

\* Jaccard index of the watched sets of u and o, in units of 1/ONE
Jaccard(h, u, o) ==
    (ONE * Cardinality(Watched(HItems(h, u)) \cap Watched(HItems(h, o))))
        \div Cardinality(Watched(HItems(h, u)) \cup Watched(HItems(h, o)))

\* the place of neighbour o among the neighbours of u: by similarity, and
\* among equally similar ones by the order of the users in the history store
RankOf(h, u, o) ==
    1 + Cardinality({x \in Neighbours(h, u) :
            \/ Jaccard(h, u, x) > Jaccard(h, u, o)
            \/ Jaccard(h, u, x) = Jaccard(h, u, o) /\ HIndex(h, x) < HIndex(h, o)})

TopFive(h, u) == {o \in Neighbours(h, u) : RankOf(h, u, o) <= TopNeighbours}

RECURSIVE SumOfContributions(_, _, _, _)
SumOfContributions(h, u, c, users) ==
    IF users = {} THEN 0
    ELSE LET o == CHOOSE x \in users : TRUE
         IN  (Jaccard(h, u, o) * (100 + EntryOf(h, o, c).watched_percentage)) \div 200
             + SumOfContributions(h, u, c, users \ {o})

CollabScore(h, u, c) ==
    SumOfContributions(h, u, c, {o \in TopFive(h, u) : c \in Watched(HItems(h, o))})

TopFiveCandidates(vs, h, u, category_id) ==
    {c \in Keys(vs) :
        /\ c \notin Watched(HItems(h, u))
        /\ \E o \in TopFive(h, u) : c \in Watched(HItems(h, o))
        /\ ~Falsy(category_id) => Get(Video(vs, c), "categoryId", None) = category_id}

\* C25: the score recommend_by_collaboration gives a video is the sum, over
\* the at most 5 most similar overlapping users that watched it, of Jaccard x
\* (0.5 + 0.5 x watched_percentage / 100); the result is the top limit of the
\* videos those users give, in non-increasing score order, so a video that
\* only an overlapping user ranked below the fifth watched is not returned.
C25_ScoreOverTopFive ==
    call.op = "recommend_by_collaboration" =>
        LET u == call.user_id
            candidates == TopFiveCandidates(videos, watch_history, u, call.category_id)
            returned == Range(Ids(ret.value))
        IN  /\ ret.status = "ok"
            /\ NoDuplicates(Ids(ret.value))
            /\ returned \subseteq candidates
            /\ Len(ret.value) = Min(call.limit, Cardinality(candidates))
            /\ NonIncreasing(ret.value)
            /\ \A i \in DOMAIN ret.value :
                  /\ ret.value[i].score = CollabScore(watch_history, u, ret.value[i].id)
                  /\ \A c \in candidates \ returned :
                        CollabScore(watch_history, u, c) <= ret.value[i].score

\* u has more than five neighbours; a video that only a neighbour below the
\* fifth watched is left out although the result has room, and a returned
\* video has the summed score of several neighbours
C25_SixthNeighbourLeftOut ==
    /\ call.op = "recommend_by_collaboration"
    /\ Cardinality(Neighbours(watch_history, call.user_id)) > TopNeighbours
    /\ Len(ret.value) < call.limit
    /\ CollabCandidates(videos, watch_history, call.user_id, call.category_id)
          \ Range(Ids(ret.value)) # {}
    /\ \E i \in DOMAIN ret.value :
          /\ Cardinality({o \in TopFive(watch_history, call.user_id) :
                 ret.value[i].id \in Watched(HItems(watch_history, o))}) > 1
          /\ ret.value[i].score > ONE

\* equal scores come in the order of the catalog
TiesInCatalogOrder(vs, recs) ==
    \A i, j \in DOMAIN recs :
        (i < j /\ recs[i].score = recs[j].score)
            => Lookup(vs, recs[i].id) < Lookup(vs, recs[j].id)

\* C26: recommend_by_content returns its records in non-increasing score
\* order, and records of equal score in the order the catalog holds them, on
\* the index path and on the manual path.
C26_TiesInInsertionOrder ==
    (call.op = "recommend_by_content" /\ ret.status = "ok") =>
        /\ NonIncreasing(ret.value)
        /\ TiesInCatalogOrder(videos, ret.value)

\* the index path returned B before A with the same score, and the catalog
\* holds A before B
C26_LaterVideoFirst ==
    /\ call.op = "recommend_by_content"
    /\ call.path = "index"
    /\ ret.status = "ok"
    /\ Ids(ret.value) = <<"B", "A">>
    /\ ret.value[1].score = ret.value[2].score
    /\ Lookup(videos, "A") < Lookup(videos, "B")

---------------------------------------------------------------------------
(* Properties of clear_history and of the references of the history *)

\* the history in which u never watched anything
WithoutWatchesOf(h, u) == IF u \in HKeys(h) THEN HStore(h, u, <<>>) ELSE h

\* C27: a clear_history(u) call leaves no effect of u's watches on the
\* collaborative results: recommend_by_collaboration(u) returns the empty
\* list, and for every other user w it returns what it returns in the state
\* where u never watched anything.
C27_ClearedUserHasNoInfluence ==
    [][ (call'.op = "clear_history" /\ call'.user_id \in UserIds) =>
           \A limit \in Limits, category_id \in CategoryFilters :
               /\ CollaborativeRecommendations(videos', watch_history',
                      call'.user_id, limit, category_id) = <<>>
               /\ \A w \in (UserIds \cup OtherUserIds) \ {call'.user_id} :
                     CollaborativeRecommendations(videos', watch_history', w,
                                                  limit, category_id)
                       = CollaborativeRecommendations(videos,
                             WithoutWatchesOf(watch_history, call'.user_id), w,
                             limit, category_id) ]_vars

\* clear_history(0) dropped the items of users 1 and 2, who were each other's
\* neighbours
C27_NeighboursLost ==
    /\ call.op = "clear_history"
    /\ call.user_id = 0
    /\ {1, 2} \subseteq call.cleared
    /\ watch_history = <<>>

\* C28: after any sequence of add_videos, add_to_history and clear_history
\* calls, the video_id of every watch-history entry of every user is a key of
\* the catalog, so get_user_history lists every entry of the user.
C28_EntriesReferToCatalog ==
    \A k \in DOMAIN watch_history :
        /\ Watched(watch_history[k].items) \subseteq Keys(videos)
        /\ Len(GetUserHistory(videos, watch_history, watch_history[k].user_id,
                              Len(watch_history[k].items)))
             = Len(watch_history[k].items)

\* add_to_history was called with a video the catalog does not hold, by a
\* user whose list holds entries, and the catalog has since been added to
C28_UnknownVideoRefused ==
    /\ call.op = "add_to_history"
    /\ call.video_id \notin Keys(videos)
    /\ HItems(watch_history, call.user_id) # <<>>
    /\ Len(videos) > 1

---------------------------------------------------------------------------
(* Properties of the source video in the results *)

HybridWithSource ==
    /\ call.op = "recommend_hybrid"
    /\ ret.status = "ok"
    /\ ~Falsy(call.video_id)

\* C29: recommend_hybrid(user_id, source_id, category, limit) never returns
\* the record of source_id, whichever branch produced the result: fused,
\* content only, collaborative only or the trending fallback.
C29_HybridExcludesSource ==
    HybridWithSource => call.video_id \notin Range(Ids(ret.value))

\* the catalog holds the source alone, and the trending fallback returns it
C29_SourceFromTrending ==
    /\ HybridWithSource
    /\ call.branch = "trending"
    /\ Keys(videos) = {call.video_id}
    /\ Ids(ret.value) = <<call.video_id>>

ContentWithoutFilter ==
    /\ call.op = "recommend_by_content"
    /\ ret.status = "ok"
    /\ Falsy(call.category_id)
    /\ call.source_video_id \in Keys(videos)

\* C30: recommend_by_content(source_id, limit) without a category filter
\* returns exactly min(limit, number of catalog videos other than the source)
\* records.
C30_ExactlyLimitOrAllOthers ==
    ContentWithoutFilter =>
        Len(ret.value) = Min(call.limit,
                             Cardinality(Keys(videos) \ {call.source_video_id}))

\* the catalog holds two videos besides the source, limit is 2, and the index
\* path returns one record
C30_OneSlotSpentOnSource ==
    /\ ContentWithoutFilter
    /\ call.path = "index"
    /\ call.limit = 2
    /\ Cardinality(Keys(videos) \ {call.source_video_id}) = 2
    /\ Len(ret.value) = 1

====
